---- MODULE Spec2Model ----
(***************************************************************************)
(* passata: a work/break interval scheduler (src/src/main.rs).             *)
(*                                                                         *)
(* The model follows main(): the Passata struct, the calloop timer         *)
(* dispatcher closure, the ext-idle-notification event handler and the     *)
(* body of the main loop that runs after every event_loop.dispatch().      *)
(*                                                                         *)
(* Time is discrete: one tick is TickSecs seconds, an Instant is a number  *)
(* of ticks since start-up and a Duration is a number of ticks.            *)
(* Option<T> is a sequence of length at most one.                          *)
(***************************************************************************)
EXTENDS Integers, Sequences, FiniteSets, TLC

\* ---------------------------------------------------------------- bounds
MaxTime == 12
MaxIdleEvents == 4
MaxBatch == 2
MaxWork == 3
MaxShortBreak == 2
MaxCount == 2
TickSecs == 30

\* ---------------------------------------------------------------- Option
None == << >>
Some(x) == << x >>
IsSome(o) == Len(o) = 1
IsNone(o) == Len(o) = 0
Unwrap(o) == o[1]

\* u8 arithmetic of current_short_breaks
U8Mod == 256

\* u8::MAX, the largest short_breaks_before_long_break
MaxU8 == 255

\* ---------------------------------------------------------------- state
VARIABLES
    config,                 \* Config, immutable after start-up
    next_event,             \* Passata::next_event: what the next expiry starts
    current_short_breaks,   \* Passata::current_short_breaks
    time_passed,            \* Passata::time_passed : Option<Duration>
    timer_started,          \* Passata::timer_started : Instant
    idle_status,            \* Passata::idle_status : Option<IdleStatus>
    timer,                  \* the calloop Timer source and its registration
    now,                    \* Instant::now()
    panic,                  \* "" while running, else the unwrap that failed
    notifications,          \* the notifications shown so far, in order
    seat_idle,              \* idle source: TRUE between its Idled and Resumed
    woken,                  \* dispatch() has run a callback and will return
    delivered,              \* idle events handled in the current dispatch()
    idle_total,             \* idle events handled since start-up
    phases,                 \* history: phases entered, first Work included
    work_running,           \* history: ticks the timer ran in this Work phase
    exact_remaining,        \* history: countdown left when Work was paused
    pending_in_break,       \* history: idle_status was set during a break
    overwritten,            \* history: an idle event was replaced before it was taken
    notify_calls,           \* history: calls of Notification::show() made so far
    batched,                \* history: some dispatch() delivered two idle events
    has_idle_notifier       \* the compositor advertises ext_idle_notifier_v1

vars == << config, next_event, current_short_breaks, time_passed, timer_started,
           idle_status, timer, now, panic, notifications, seat_idle, woken,
           delivered, idle_total, phases, work_running, exact_remaining,
           pending_in_break, overwritten, notify_calls, batched,
           has_idle_notifier >>

\* ---------------------------------------------------------------- Config
Configs ==
    [ work_interval : 2..MaxWork,
      short_break : 1..MaxShortBreak,
      long_break : {None, Some(2)},
      short_breaks_before_long_break : {None} \cup {Some(n) : n \in 0..MaxCount},
      idle_timeout : {None, Some(1)} ]

\* ---------------------------------------------------------------- helpers
\* a break is going on exactly when the next expiry starts Work
InBreak == next_event = "Work"
InWork == next_event # "Work"

\* the current phase: the last one entered
phase == phases[Len(phases)]

\* the timer source is registered and its deadline has been reached
TimerDue == timer.enabled /\ now >= timer.deadline

\* TimeoutAction::ToDuration(d) / Timer::set_duration(d) followed by enable
Armed(d) == [enabled |-> TRUE, deadline |-> now + d]

\* humantime::format_duration of a whole number of seconds: <<hours, minutes, seconds>>
format_duration(secs) == << secs \div 3600, (secs % 3600) \div 60, secs % 60 >>

\* Duration::as_secs of a number of ticks
as_secs(d) == d * TickSecs

\* the seconds shown by the resume notification
RoundedLeft(time_left) ==
    IF time_left < 60 THEN time_left ELSE time_left - (time_left % 60)

ShortBreakSummary ==
    IF IsSome(config.short_breaks_before_long_break)
    THEN << "Short break", current_short_breaks,
            Unwrap(config.short_breaks_before_long_break) + 1 >>
    ELSE << "Short break" >>

LongBreakSummary == << "Long break" >>

ResumeSummary(time_left) ==
    << "until next break", format_duration(RoundedLeft(as_secs(time_left))) >>

Notification(summary, body) == [summary |-> summary, body |-> body]

\* globals.bind::<ExtIdleNotifierV1, _, _>(..)? : main returns the error when
\* the global is missing, whether or not idle_timeout is configured
BindIdleNotifier == IF has_idle_notifier THEN "" ELSE "bind"

\* ---------------------------------------------------------------- Init
Init ==
    /\ config \in Configs
    /\ next_event = "ShortBreak"
    /\ current_short_breaks = 0
    /\ time_passed = None
    /\ timer_started = 0
    /\ idle_status = None
    /\ now = 0
    /\ timer = [enabled |-> TRUE, deadline |-> config.work_interval]
    /\ has_idle_notifier \in BOOLEAN
    /\ panic = BindIdleNotifier
    /\ notifications = << >>
    /\ seat_idle = FALSE
    /\ woken = FALSE
    /\ delivered = 0
    /\ idle_total = 0
    /\ phases = << "Work" >>
    /\ work_running = 0
    /\ exact_remaining = None
    /\ pending_in_break = FALSE
    /\ overwritten = FALSE
    /\ notify_calls = 0
    /\ batched = FALSE

\* ---------------------------------------------------------------- actions
\* dispatch() is blocked in poll: time passes. The timer source wakes the
\* loop at its deadline, so time does not pass a deadline that is armed.
Tick ==
    /\ panic = ""
    /\ ~woken
    /\ ~TimerDue
    /\ now < MaxTime
    /\ now' = now + 1
    /\ work_running' = IF InWork /\ timer.enabled THEN work_running + 1 ELSE work_running
    /\ UNCHANGED << config, next_event, current_short_breaks, time_passed,
                    timer_started, idle_status, timer, panic, notifications,
                    seat_idle, woken, delivered, idle_total, phases,
                    exact_remaining, pending_in_break, overwritten, notify_calls,
                    batched, has_idle_notifier >>

\* Dispatch<ExtIdleNotificationV1, ()>::event
IdleEvent(kind) ==
    /\ panic = ""
    /\ IsSome(config.idle_timeout)
    /\ seat_idle = (kind = "Resumed")
    /\ delivered < MaxBatch
    /\ idle_total < MaxIdleEvents
    /\ idle_status' = Some(kind)
    /\ seat_idle' = (kind = "Idled")
    /\ woken' = TRUE
    /\ delivered' = delivered + 1
    /\ idle_total' = idle_total + 1
    /\ pending_in_break' = InBreak
    /\ overwritten' = (overwritten \/ IsSome(idle_status))
    /\ batched' = (batched \/ delivered >= 1)
    /\ UNCHANGED << config, next_event, current_short_breaks, time_passed,
                    timer_started, timer, now, panic, notifications, phases,
                    work_running, exact_remaining, notify_calls, has_idle_notifier >>

\* what the Work arm selects as the break to come
AfterWorkNext(count, before_long) ==
    IF IsSome(before_long) /\ count = Unwrap(before_long)
    THEN "LongBreak" ELSE "ShortBreak"

\* the counter is never reset: it is incremented on every Work expiry
AfterWorkCountNoReset(count, before_long) ==
    IF IsSome(before_long) THEN (count + 1) % U8Mod ELSE count

\* what the Work arm leaves in current_short_breaks
AfterWorkCount(count, before_long) ==
    IF IsSome(before_long)
    THEN IF count = Unwrap(before_long) THEN 0 ELSE (count + 1) % U8Mod
    ELSE count

\* the Work arm announces the work phase as the break arms announce theirs
ExpiredWorkNotifying ==
    /\ next_event = "Work"
    /\ next_event' = AfterWorkNext(current_short_breaks,
                                    config.short_breaks_before_long_break)
    /\ current_short_breaks' = AfterWorkCount(current_short_breaks,
                                              config.short_breaks_before_long_break)
    /\ timer' = Armed(config.work_interval)
    /\ phases' = Append(phases, "Work")
    /\ work_running' = 0
    /\ notify_calls' = notify_calls + 1
    /\ notifications' = Append(notifications, Notification(<< "Work" >>, "work again!"))
    /\ UNCHANGED panic

\* the NextEvent::Work arm of the timer callback
ExpiredWork ==
    /\ next_event = "Work"
    /\ next_event' = AfterWorkNext(current_short_breaks,
                                    config.short_breaks_before_long_break)
    /\ current_short_breaks' = AfterWorkCount(current_short_breaks,
                                              config.short_breaks_before_long_break)
    /\ timer' = Armed(config.work_interval)
    /\ phases' = Append(phases, "Work")
    /\ work_running' = 0
    /\ UNCHANGED << panic, notifications, notify_calls >>

\* the NextEvent::ShortBreak arm of the timer callback
ExpiredShortBreak ==
    /\ next_event = "ShortBreak"
    /\ next_event' = "Work"
    /\ phases' = Append(phases, "ShortBreak")
    /\ notify_calls' = notify_calls + 1
    /\ \E shown \in BOOLEAN :
         IF shown
         THEN /\ notifications' = Append(notifications,
                                         Notification(ShortBreakSummary, "Take a pause!"))
              /\ timer' = Armed(config.short_break)
              /\ UNCHANGED panic
         ELSE /\ panic' = "notification"
              /\ UNCHANGED << notifications, timer >>
    /\ UNCHANGED << current_short_breaks, work_running >>

\* the NextEvent::LongBreak arm of the timer callback
ExpiredLongBreak ==
    /\ next_event = "LongBreak"
    /\ next_event' = "Work"
    /\ phases' = Append(phases, "LongBreak")
    /\ notify_calls' = notify_calls + 1
    /\ \E shown \in BOOLEAN :
         IF shown
         THEN /\ notifications' = Append(notifications,
                                         Notification(LongBreakSummary, "Take a long pause!"))
              /\ IF IsSome(config.long_break)
                 THEN /\ timer' = Armed(Unwrap(config.long_break))
                      /\ UNCHANGED panic
                 ELSE /\ panic' = "long_break"
                      /\ UNCHANGED timer
         ELSE /\ panic' = "notification"
              /\ UNCHANGED << notifications, timer >>
    /\ UNCHANGED << current_short_breaks, work_running >>

\* the timer dispatcher's callback
TimerExpired ==
    /\ panic = ""
    /\ TimerDue
    /\ timer_started' = now
    /\ woken' = TRUE
    /\ exact_remaining' = None
    /\ (ExpiredWork \/ ExpiredShortBreak \/ ExpiredLongBreak)
    /\ UNCHANGED << config, time_passed, idle_status, now, seat_idle, delivered,
                    idle_total, pending_in_break, overwritten, batched,
                    has_idle_notifier >>

\* the Idled arm without handle.disable: the time is recorded, the timer runs on
ProcessIdledNoDisable ==
    /\ time_passed' = Some(now - timer_started)
    /\ exact_remaining' = IF timer.enabled THEN Some(timer.deadline - now)
                          ELSE exact_remaining
    /\ UNCHANGED << timer, timer_started, panic, notifications, notify_calls >>

\* IdleStatus::Idled arm of the main loop
ProcessIdled ==
    /\ timer' = [timer EXCEPT !.enabled = FALSE]
    /\ time_passed' = Some(now - timer_started)
    /\ exact_remaining' = IF timer.enabled THEN Some(timer.deadline - now)
                          ELSE exact_remaining
    /\ UNCHANGED << timer_started, panic, notifications, notify_calls >>

\* IdleStatus::Resumed arm of the main loop
ProcessResumed ==
    /\ exact_remaining' = None
    /\ IF IsNone(time_passed)
       THEN /\ panic' = "time_passed"
            /\ UNCHANGED << timer, timer_started, notifications, notify_calls >>
       ELSE IF Unwrap(time_passed) > config.work_interval
       THEN /\ panic' = "duration_sub"
            /\ UNCHANGED << timer, timer_started, notifications, notify_calls >>
       ELSE LET time_left == config.work_interval - Unwrap(time_passed) IN
            /\ timer' = Armed(time_left)
            /\ timer_started' = now
            /\ notify_calls' = notify_calls + 1
            /\ \E shown \in BOOLEAN :
                 IF shown
                 THEN /\ notifications' = Append(notifications,
                                Notification(ResumeSummary(time_left), "Take a pause!"))
                      /\ UNCHANGED panic
                 ELSE /\ panic' = "notification"
                      /\ UNCHANGED notifications
    /\ UNCHANGED time_passed

\* the guard that is dropped: idle events are taken during breaks too
ProcessIdleEventsAlways == TRUE

\* "don't process the idle events when a break is currently going on"
ProcessIdleEvents == next_event # "Work"

\* the body of the main loop after event_loop.dispatch() has returned
MainLoop ==
    /\ panic = ""
    /\ woken
    /\ woken' = FALSE
    /\ delivered' = 0
    /\ IF ProcessIdleEvents /\ IsSome(idle_status)
       THEN /\ idle_status' = None
            /\ pending_in_break' = FALSE
            /\ IF Unwrap(idle_status) = "Idled" THEN ProcessIdled ELSE ProcessResumed
       ELSE UNCHANGED << idle_status, pending_in_break, timer, time_passed,
                         timer_started, panic, notifications, exact_remaining,
                         notify_calls >>
    /\ UNCHANGED << config, next_event, current_short_breaks, now, seat_idle,
                    idle_total, phases, work_running, overwritten, batched,
                    has_idle_notifier >>

Next ==
    \/ Tick
    \/ \E kind \in {"Idled", "Resumed"} : IdleEvent(kind)
    \/ TimerExpired
    \/ MainLoop

Spec == Init /\ [][Next]_vars

\* ------------------------------------------------- the counter on its own
\* The phase and the counter depend on nothing but the order of the timer
\* expiries, so they are followed here through as many expiries as the
\* largest configured count needs, with the clock and the timer left out.
CounterConfigs ==
    [ work_interval : {2},
      short_break : {1},
      long_break : {Some(2)},
      short_breaks_before_long_break :
          {Some(n) : n \in (0..MaxCount) \cup {MaxU8 - 1, MaxU8}},
      idle_timeout : {None} ]

InitCounter ==
    /\ config \in CounterConfigs
    /\ next_event = "ShortBreak"
    /\ current_short_breaks = 0
    /\ time_passed = None
    /\ timer_started = 0
    /\ idle_status = None
    /\ now = 0
    /\ timer = [enabled |-> TRUE, deadline |-> config.work_interval]
    /\ has_idle_notifier = TRUE
    /\ panic = BindIdleNotifier
    /\ notifications = << >>
    /\ seat_idle = FALSE
    /\ woken = FALSE
    /\ delivered = 0
    /\ idle_total = 0
    /\ phases = << "Work" >>
    /\ work_running = 0
    /\ exact_remaining = None
    /\ pending_in_break = FALSE
    /\ overwritten = FALSE
    /\ notify_calls = 0
    /\ batched = FALSE

\* what one timer expiry does to next_event and current_short_breaks
CounterExpired ==
    /\ panic = ""
    /\ next_event' = IF next_event = "Work"
                     THEN AfterWorkNext(current_short_breaks,
                                        config.short_breaks_before_long_break)
                     ELSE "Work"
    /\ current_short_breaks' = IF next_event = "Work"
                               THEN AfterWorkCount(current_short_breaks,
                                                   config.short_breaks_before_long_break)
                               ELSE current_short_breaks
    /\ UNCHANGED << config, time_passed, timer_started, idle_status, timer, now,
                    panic, notifications, seat_idle, woken, delivered, idle_total,
                    phases, work_running, exact_remaining, pending_in_break,
                    overwritten, notify_calls, batched, has_idle_notifier >>

NextCounter == CounterExpired

SpecCounter == InitCounter /\ [][NextCounter]_vars

\* ---------------------------------------------------------------- claims
\* the steps of the main loop that take an idle event of the given kind
Processes(kind) ==
    /\ MainLoop
    /\ next_event # "Work"
    /\ idle_status = Some(kind)

\* the short breaks entered since start-up or since the last long break
ShortBreaksSinceLong ==
    LET longs == {i \in 1..Len(phases) : phases[i] = "LongBreak"}
        last == IF longs = {} THEN 0 ELSE CHOOSE i \in longs : \A j \in longs : j <= i
    IN  Cardinality({i \in (last + 1)..Len(phases) : phases[i] = "ShortBreak"})

\* the phase the i-th entry of the history should be, counting the first Work,
\* when n short breaks come before every long break
CyclePhase(i, n) ==
    IF i % 2 = 1 THEN "Work"
    ELSE IF (i \div 2) % (n + 1) = 0 THEN "LongBreak" ELSE "ShortBreak"

\* C1: LongBreak is never selected or entered unless both long_break and
\* short_breaks_before_long_break are configured, so the LongBreak arm never
\* finds the duration missing.
C1_LongBreakNeedsBoth ==
    /\ (next_event = "LongBreak" \/ \E i \in 1..Len(phases) : phases[i] = "LongBreak")
          => (IsSome(config.long_break) /\ IsSome(config.short_breaks_before_long_break))
    /\ panic # "long_break"

\* C2: with long_break set, short_breaks_before_long_break = N and no idle
\* events, the phases entered from a fresh start are (Work, ShortBreak) x N,
\* Work, LongBreak, repeated.
C2_PhaseCycle ==
    (/\ IsSome(config.long_break)
     /\ IsSome(config.short_breaks_before_long_break)
     /\ idle_total = 0
     /\ panic = "")
        => \A i \in 1..Len(phases) :
              phases[i] = CyclePhase(i, Unwrap(config.short_breaks_before_long_break))

\* C3: the k-th short break since start-up or since the last long break is
\* announced as "Short break (k/N+1)" when N short breaks before a long break
\* are configured, and as "Short break" otherwise.
C3_ShortBreakSummary ==
    (phase = "ShortBreak" /\ panic = "")
        => notifications[Len(notifications)].summary =
              IF IsSome(config.short_breaks_before_long_break)
              THEN << "Short break", ShortBreaksSinceLong,
                      Unwrap(config.short_breaks_before_long_break) + 1 >>
              ELSE << "Short break" >>

\* C4: a Resumed processed after an Idled that paused the running Work
\* countdown re-arms it for exactly what was left of the armed duration when
\* it was paused (stated for the runs in which every idle event is taken
\* before the next one arrives and no notification fails).
C4_ResumeExactRemaining ==
    [][(Processes("Resumed") /\ IsSome(exact_remaining) /\ ~overwritten /\ panic' = "")
          => (timer'.enabled /\ timer'.deadline - now' = Unwrap(exact_remaining))]_vars

\* C5: the timer that ends a Work phase expires exactly when the time it has
\* been running in that phase, pauses left out, equals work_interval (stated
\* for the runs in which every idle event is taken before the next arrives).
C5_AwayTimeNotCounted ==
    [][(TimerExpired /\ next_event # "Work" /\ ~overwritten)
          => work_running = config.work_interval]_vars

\* C6: processing a Resumed while the Work timer is running changes nothing
\* and does not fail.
C6_ResumedWhileRunningNoOp ==
    [][(Processes("Resumed") /\ timer.enabled)
          => UNCHANGED << timer, timer_started, time_passed, panic, notifications >>]_vars

\* C7: processing an Idled while the timer is already paused leaves the paused
\* state, the recorded time included, as the first Idled left it.
C7_IdledWhilePausedNoOp ==
    [][(Processes("Idled") /\ ~timer.enabled)
          => UNCHANGED << timer, timer_started, time_passed >>]_vars

\* C8: idle events during a break never change the break's countdown: their
\* delivery and the main loop leave the timer alone, and the break ends exactly
\* its configured duration after it began.
C8_BreakCountdownUntouched ==
    [][/\ (next_event = "Work" /\ (MainLoop \/ \E kind \in {"Idled", "Resumed"} : IdleEvent(kind)))
            => UNCHANGED << timer, timer_started >>
       /\ (next_event = "Work" /\ TimerExpired)
            => now = timer_started + (IF phase = "LongBreak" THEN Unwrap(config.long_break)
                                      ELSE config.short_break)]_vars

\* a break is about to end on time although an idle event that came during it
\* has been through the main loop
C8_Witness ==
    /\ next_event = "Work"
    /\ panic = ""
    /\ pending_in_break
    /\ IsSome(idle_status)
    /\ ~woken
    /\ now = timer.deadline
    /\ now > timer_started
    /\ idle_total >= 2

\* C9: an idle event that arrived during a break is dropped: taking it has no
\* effect on the timer of the Work phase that follows, shows no notification
\* and does not fail.
C9_BreakIdleEventDropped ==
    [][(MainLoop /\ pending_in_break /\ IsSome(idle_status))
          => UNCHANGED << timer, timer_started, time_passed, panic, notifications >>]_vars

\* C10: time_passed is set if and only if the timer is paused.
C10_TimePassedIffPaused ==
    panic = "" => (IsSome(time_passed) <=> ~timer.enabled)

\* C11: with short_breaks_before_long_break = N the counter stays in 0..N, it
\* is 0 once a long break is selected, and it only ever goes back to 0 by
\* that reset, never by wrapping around the 8-bit range.
C11_CounterBounded ==
    /\ [](IsSome(config.short_breaks_before_long_break)
            => /\ current_short_breaks \in 0..Unwrap(config.short_breaks_before_long_break)
               /\ (next_event = "LongBreak" => current_short_breaks = 0))
    /\ [][/\ current_short_breaks' \in {0, current_short_breaks, current_short_breaks + 1}
          /\ (current_short_breaks' < current_short_breaks) => (next_event' = "LongBreak")]_vars

\* the long break has been selected after the largest count of short breaks
C11_Witness ==
    /\ config.short_breaks_before_long_break = Some(MaxU8)
    /\ next_event = "LongBreak"
    /\ current_short_breaks = 0

\* C12: a failure of the notifier call never ends the scheduler.
C12_NotifierFailureNotPropagated ==
    panic # "notification"

\* C13: a timer expiry that enters ShortBreak or LongBreak makes exactly one
\* notification call, and one that enters Work makes none.
C13_OneNotificationPerBreak ==
    [][TimerExpired
          => notify_calls' = notify_calls + (IF next_event = "Work" THEN 0 ELSE 1)]_vars

\* a break has been entered with its one notification and Work entered after
\* it without another
C13_Witness ==
    /\ panic = ""
    /\ Len(phases) >= 3
    /\ phase = "Work"
    /\ idle_total = 0
    /\ notify_calls = 1
    /\ Len(notifications) = 1

\* C14: without idle_timeout the scheduler starts even when the compositor
\* has no idle notifier.
C14_StartsWithoutIdleSource ==
    (IsNone(config.idle_timeout) /\ ~has_idle_notifier) => panic # "bind"

\* the duration of the phase that an expiry with this next_event enters
ClaimedDuration(entered) ==
    IF entered = "Work" THEN Some(config.work_interval)
    ELSE IF entered = "ShortBreak" THEN Some(config.short_break)
    ELSE config.long_break

\* C15: every timer expiry re-arms the countdown for the duration of the
\* phase it enters and resets timer_started to the time of the expiry; Work
\* is followed by a break and a break by Work.
C15_RearmedForEnteredPhase ==
    [][TimerExpired
          => /\ IsSome(ClaimedDuration(next_event))
             /\ timer'.enabled
             /\ timer'.deadline = now + Unwrap(ClaimedDuration(next_event))
             /\ timer_started' = now
             /\ (next_event' = "Work") = (next_event # "Work")]_vars

\* C16: once an Idled has paused the Work countdown, there is no timer expiry
\* and no phase change until a Resumed is processed.
C16_NoTransitionWhilePaused ==
    [][(IsSome(exact_remaining) /\ ~Processes("Resumed"))
          => UNCHANGED << next_event, phases, current_short_breaks >>]_vars

\* the idle period has outlasted the deadline the paused countdown had
C16_Witness ==
    /\ panic = ""
    /\ IsSome(exact_remaining)
    /\ ~timer.enabled
    /\ ~woken
    /\ now > timer.deadline

\* the seconds the resume notification should show for r seconds left
ClaimedDisplay(r) == IF r < 60 THEN r ELSE r - (r % 60)

\* C17: every processed resume of a paused timer makes a notification call,
\* and the notification shows the re-armed time in whole seconds, rounded down
\* to whole minutes from 60 seconds on.
C17_ResumeNotification ==
    [][(Processes("Resumed") /\ ~timer.enabled)
          => /\ notify_calls' = notify_calls + 1
             /\ (panic' = "")
                  => notifications'[Len(notifications')].summary =
                        << "until next break",
                           format_duration(ClaimedDisplay(
                               as_secs(timer'.deadline - now'))) >>]_vars

\* C18: no idle event is lost: when a dispatch delivers an idle event, the
\* one before it has already been taken by the main loop (stated for the runs
\* in which no dispatch has delivered more than one idle event).
C18_NoIdleEventLost ==
    [][(~batched /\ delivered = 0 /\ \E kind \in {"Idled", "Resumed"} : IdleEvent(kind))
          => IsNone(idle_status)]_vars

\* C19: a Resumed is never processed with time_passed unset, so its unwrap
\* never fails (stated for the runs in which no dispatch has delivered more
\* than one idle event).
C19_ResumedHasTimePassed ==
    [][(Processes("Resumed") /\ ~batched) => IsSome(time_passed)]_vars

\* C20: when a Resumed is processed the recorded time_passed is at most
\* work_interval, so work_interval - time_passed does not underflow.
C20_NoDurationUnderflow ==
    [][(Processes("Resumed") /\ IsSome(time_passed))
          => (Unwrap(time_passed) <= config.work_interval /\ panic' # "duration_sub")]_vars

====
